---- MODULE Spec2Model ----
(***************************************************************************)
(* Model of the argo action tree (src/action.go lines 1-441, together with *)
(* the State of src/unnamed/part_001).                                     *)
(*                                                                         *)
(* Go memory is modelled explicitly.  Every Action that has an address     *)
(* (a caller's variable, or a copy taken with &tempAct by Finalize) is an  *)
(* entry of mem; a pointer is an index of mem and 0 is nil.  AddSubAction  *)
(* takes its argument by value, so the child registry subActionLookupTemp  *)
(* holds Action VALUES; being a Go map it is a reference, shared by every  *)
(* copy of the Action that owns it: it is an index of tmaps, 0 is nil.     *)
(* Strings that are built by joining triggers with " " (paths) are the     *)
(* sequences of the joined triggers; the output sink is the sequence of    *)
(* the chunks written to it.                                               *)
(***************************************************************************)
EXTENDS Integers, Sequences, FiniteSets, TLC

VARIABLES mem, tmaps, last, nParses, calls

vars == <<mem, tmaps, last, nParses, calls>>

----------------------------------------------------------------------------
(* Bounds of the model *)

\* longest token sequence handed to Parse
MaxTokens == 3

\* number of Actions the caller attaches with AddSubAction
MaxAdds == 2

\* number of Parse calls made by the caller
MaxParses == 1

\* longest token sequence handed to Parse by the caller whose two Actions
\* both consume tokens
MaxRunTokens == 4

\* number of Actions that caller attaches with AddSubAction
MaxRunAdds == 1

\* number of Actions attached by the caller that shares a child between two
\* parents
MaxCommonAdds == 5

\* number of Parse calls made by that caller
MaxCommonParses == 2

\* number of Parse calls made by the caller that repeats a call
MaxRepeatParses == 3

\* number of Help calls made by that caller
MaxHelps == 1

\* the caller's Action variables: mem[1], mem[2]
Vars == {1, 2}

\* every trigger string of the model, in the order used to number the
\* copies Finalize allocates
AllTriggers == <<"a", "b", "help", "c", "d">>

\* tokens a caller passes to Parse
Tokens == {"a", "b", "help"}

\* extra values a caller passes to Parse
VargsChoices == {<<"v1", "v2">>}

----------------------------------------------------------------------------
(* Values *)

NilDo == [kind |-> "nil", id |-> "", fails |-> FALSE, act |-> 0]

\* a handler written by the caller: it writes one chunk naming itself and
\* returns nil or its own error value
UserDo(h, f) == [kind |-> "user", id |-> h, fails |-> f, act |-> 0]

\* the closure Finalize builds for the injected help child; it captures the
\* pointer act
HelpDo(act) == [kind |-> "help", id |-> "", fails |-> FALSE, act |-> act]

NilLookup == [isNil |-> TRUE, tbl |-> << >>]

\* Action{}: the zero value
ZeroAction ==
    [Trigger |-> "", Do |-> NilDo, MinConsume |-> 0, MaxConsume |-> 0,
     ShortDescr |-> "", LongDescr |-> "", ArgNames |-> << >>,
     Hidden |-> FALSE, DisableHelp |-> FALSE, HelpTrigger |-> "",
     HelpGen |-> "nil",
     parent |-> 0, pathCached |-> << >>, subActionLookupTemp |-> 0,
     subActionLookup |-> NilLookup, subActionTrigger |-> << >>,
     helpTextCached |-> << >>, finalized |-> FALSE]

\* an error value; kind "nil" is the nil error
MkErr(kind, victim, args, path, trigger, id) ==
    [kind |-> kind, victim |-> victim, args |-> args, path |-> path,
     trigger |-> trigger, id |-> id]

NoErr == MkErr("nil", << >>, << >>, << >>, "", "")

\* &State{}
FreshState == [isNil |-> FALSE, OutputStr |-> << >>, doArgs |-> << >>]

\* a nil *State
NilState == [isNil |-> TRUE, OutputStr |-> << >>, doArgs |-> << >>]

\* the program's memory as one value
Store(m, t) == [mem |-> m, tmaps |-> t]

----------------------------------------------------------------------------
(* Accessors *)

Path(act) ==
    IF act.pathCached = << >> THEN <<act.Trigger>> ELSE act.pathCached

SubActions(act) == act.subActionTrigger

GetSubAction(S, act, trigger) ==
    IF act.subActionLookup.isNil
    THEN IF act.subActionLookupTemp # 0
            /\ trigger \in DOMAIN S.tmaps[act.subActionLookupTemp]
         THEN S.tmaps[act.subActionLookupTemp][trigger]
         ELSE ZeroAction
    ELSE IF trigger \in DOMAIN act.subActionLookup.tbl
         THEN S.mem[act.subActionLookup.tbl[trigger]]
         ELSE ZeroAction

----------------------------------------------------------------------------
(* Help text.  A text is the sequence of the chunks it is made of; "" is   *)
(* the empty sequence.                                                     *)

Chunk(kind, who, path, body) ==
    [kind |-> kind, who |-> who, path |-> path, body |-> body]

\* requiredArgs: argNum empty strings overwritten by the leading ArgNames
RequiredArgs(act) ==
    LET argNum == IF act.MaxConsume > 0 THEN act.MaxConsume
                  ELSE act.MinConsume
    IN  [i \in 1..argNum |->
            IF i <= Len(act.ArgNames) THEN act.ArgNames[i] ELSE ""]

\* the name shown for the argument at 1-based position i
ArgLabel(name, i) == IF name = "" THEN <<"arg", i>> ELSE <<name, 0>>

genUsage(act) ==
    IF act.MaxConsume # 0
    THEN LET req == RequiredArgs(act)
         IN  [path |-> Path(act),
              required |-> [i \in 1..act.MinConsume |-> ArgLabel(req[i], i)],
              optional |->
                 IF act.MaxConsume < 0
                 THEN IF Len(act.ArgNames) > act.MinConsume
                      THEN <<<<act.ArgNames[act.MinConsume + 1], 0>>>>
                      ELSE <<<<"argN", 0>>>>
                 ELSE IF act.MaxConsume > act.MinConsume
                      THEN [i \in 1..(act.MaxConsume - act.MinConsume) |->
                              ArgLabel(req[act.MinConsume + i],
                                       act.MinConsume + i)]
                      ELSE << >>,
              ellipsis |-> act.MaxConsume < 0,
              subAction |-> FALSE]
    ELSE [path |-> Path(act), required |-> << >>, optional |-> << >>,
          ellipsis |-> FALSE, subAction |-> TRUE]

defaultHelpGenerator(S, act) ==
    LET descr == IF act.LongDescr # "" THEN act.LongDescr
                 ELSE act.ShortDescr
        subAct == SubActions(act)
        listing == [i \in 1..Len(subAct) |->
                      LET sub == GetSubAction(S, act, subAct[i])
                      IN  <<sub.Trigger, sub.ShortDescr>>]
    IN  <<Chunk("help", "default", Path(act),
                <<[usage |-> genUsage(act), descr |-> descr,
                   subs |-> listing]>>)>>

\* a HelpGen supplied by the caller: its text names the generator and the
\* Action it was applied to
CallHelpGen(S, gen, act) ==
    IF gen = "default" THEN defaultHelpGenerator(S, act)
    ELSE <<Chunk("help", gen, Path(act), << >>)>>

\* Help that puts the generated text behind the cached one
HelpAppending(S, act) ==
    IF act.HelpGen # "nil"
    THEN act.helpTextCached \o CallHelpGen(S, act.HelpGen, act)
    ELSE act.helpTextCached

\* Help on the Action value act: the text it returns, which is also the
\* value it leaves in act.helpTextCached
Help(S, act) ==
    IF act.helpTextCached = << >> /\ act.HelpGen # "nil"
    THEN CallHelpGen(S, act.HelpGen, act)
    ELSE act.helpTextCached

----------------------------------------------------------------------------
(* Tree Builder *)

Result(S, err) == [mem |-> S.mem, tmaps |-> S.tmaps, err |-> err]

\* the parent test dropped
AlreadyAssignedNever(subAct) == FALSE

\* subAct.parent != nil
AlreadyAssigned(subAct) == subAct.parent # 0

\* the test of MaxConsume dropped
UnreachableNever(a) == FALSE

\* a consumes every token: no child of it can be reached
Unreachable(a) == a.MaxConsume < 0

\* the test of the registry dropped
DuplicatedNever(S, a, subAct) == FALSE

\* the registry of a is not nil and holds the trigger of subAct
Duplicated(S, a, subAct) ==
    /\ a.subActionLookupTemp # 0
    /\ subAct.Trigger \in DOMAIN S.tmaps[a.subActionLookupTemp]

\* the trigger put in front of the list
ListChildFirst(list, trigger) == <<trigger>> \o list

\* append(act.subActionTrigger, subAct.Trigger)
ListChild(list, trigger) == Append(list, trigger)

\* act is a pointer, subAct a value
AddSubAction(S, act, subAct) ==
    LET a == S.mem[act]
    IN
    IF subAct.Trigger = ""
    THEN Result(S, MkErr("EmptyTrigger", << >>, << >>, << >>, "", ""))
    ELSE IF AlreadyAssigned(subAct)
    THEN Result(S, MkErr("ActionAlreadyAssigned", << >>, << >>,
                         Path(subAct), "", ""))
    ELSE IF Unreachable(a)
    THEN Result(S, MkErr("UnreachableAction", << >>, << >>,
                         Path(a) \o <<subAct.Trigger>>, "", ""))
    ELSE IF Duplicated(S, a, subAct)
    THEN Result(S, MkErr("DuplicatedSubAction", << >>, << >>, << >>,
                         subAct.Trigger, ""))
    ELSE
      LET fresh == a.subActionLookupTemp = 0
          mid == IF fresh THEN Len(S.tmaps) + 1 ELSE a.subActionLookupTemp
          old == IF fresh THEN << >> ELSE S.tmaps[mid]
          sub == [subAct EXCEPT !.parent = act,
                                !.pathCached = Path(a) \o <<subAct.Trigger>>]
          entry == [t \in DOMAIN old \cup {sub.Trigger} |->
                      IF t = sub.Trigger THEN sub ELSE old[t]]
          a2 == [a EXCEPT !.subActionLookupTemp = mid,
                          !.subActionTrigger = ListChild(@, sub.Trigger)]
      IN  Result(Store([S.mem EXCEPT ![act] = a2],
                       IF fresh THEN Append(S.tmaps, entry)
                       ELSE [S.tmaps EXCEPT ![mid] = entry]),
                 NoErr)

----------------------------------------------------------------------------
(* Finalizer *)

NormalizeMin(act) ==
    IF act.MinConsume < 0 THEN [act EXCEPT !.MinConsume = 0] ELSE act

\* NormalizeMax without its assignment
NormalizeMaxSkipped(act) == act

NormalizeMax(act) ==
    IF act.MaxConsume >= 0 /\ act.MaxConsume < act.MinConsume
    THEN [act EXCEPT !.MaxConsume = act.MinConsume]
    ELSE act

\* SetupPath without its assignments: the path AddSubAction cached stays
SetupPathSkipped(S, act) == act

\* "Setup Path"; parent is a pointer
SetupPath(S, act) ==
    IF act.parent = 0 THEN [act EXCEPT !.pathCached = <<act.Trigger>>]
    ELSE [act EXCEPT !.pathCached = Path(S.mem[act.parent])
                                     \o <<act.Trigger>>]

\* SetupHelpGen that never looks at the parent
SetupHelpGenNoInherit(S, act) ==
    IF act.HelpGen = "nil" THEN [act EXCEPT !.HelpGen = "default"] ELSE act

\* "Setup Help text"
SetupHelpGen(S, act) ==
    IF act.HelpGen = "nil"
    THEN IF act.parent = 0 THEN [act EXCEPT !.HelpGen = "default"]
         ELSE [act EXCEPT !.HelpGen = S.mem[act.parent].HelpGen]
    ELSE act

SetupHelpTrigger(S, act) ==
    IF act.HelpTrigger = ""
    THEN IF act.parent = 0 THEN [act EXCEPT !.HelpTrigger = "help"]
         ELSE [act EXCEPT !.HelpTrigger = S.mem[act.parent].HelpTrigger]
    ELSE act

\* the Action literal Finalize passes to AddSubAction
HelpAction(trigger, act) ==
    [ZeroAction EXCEPT !.Trigger = trigger, !.MaxConsume = 1,
                       !.Do = HelpDo(act),
                       !.ShortDescr = "Display help for commands",
                       !.DisableHelp = TRUE]

\* InjectsHelp without the test of DisableHelp
InjectsHelpIgnoringDisable(act) == act.MaxConsume = 0

InjectsHelp(act) == ~act.DisableHelp /\ act.MaxConsume = 0

\* the triggers of a registry in the order the copies are numbered
KeysInOrder(keys) == SelectSeq(AllTriggers, LAMBDA t : t \in keys)

\* the lookup table left empty
CreateLookupEmpty(S, act) ==
    Store([S.mem EXCEPT ![act].subActionLookup =
                            [isNil |-> FALSE, tbl |-> << >>]], S.tmaps)

\* "Create lookupTable": one fresh copy (&tempAct) per registry entry
CreateLookup(S, act) ==
    LET a == S.mem[act]
        reg == IF a.subActionLookupTemp = 0 THEN << >>
               ELSE S.tmaps[a.subActionLookupTemp]
        keys == KeysInOrder(DOMAIN reg)
        base == Len(S.mem)
        tbl == [t \in DOMAIN reg |->
                  base + (CHOOSE i \in 1..Len(keys) : keys[i] = t)]
        copies == [i \in 1..Len(keys) |-> reg[keys[i]]]
        a2 == [a EXCEPT !.subActionLookup = [isNil |-> FALSE, tbl |-> tbl]]
    IN  Store([S.mem EXCEPT ![act] = a2] \o copies, S.tmaps)

\* every error of the injection returned
InjectionFailsOnDuplicate(err) == err.kind # "nil"

\* the error of the injection that Finalize returns: any but the one that
\* says the trigger is taken
InjectionFails(err) == err.kind \notin {"nil", "DuplicatedSubAction"}

\* the test of finalized dropped
AlreadyFinalizedNever(act) == FALSE

\* act.finalized
AlreadyFinalized(act) == act.finalized

\* the error of a child returned after the mark of act is taken back
ReturnSubErrorUndone(r, act) ==
    [r EXCEPT !.mem = [@ EXCEPT ![act].finalized = FALSE]]

\* "return err" in the loop over the children: nothing is undone
ReturnSubError(r, act) == r

\* act.finalized = true, before the children are visited
MarkFinalized(S, act) ==
    Store([S.mem EXCEPT ![act].finalized = TRUE], S.tmaps)

\* the loop over the children left out
finalizeSubActionsSkipped(S, act, todo) == {Result(S, NoErr)}

RECURSIVE finalizeActionTree(_, _, _)
RECURSIVE finalizeSubActions(_, _, _)

\* the loop over act.subActionLookup; Go ranges over a map in an order of
\* its own choosing, so every order of the triggers in todo is an outcome
finalizeSubActions(S, act, todo) ==
    IF todo = {} THEN {Result(S, NoErr)}
    ELSE UNION {
           UNION { IF r.err.kind # "nil" THEN {ReturnSubError(r, act)}
                   ELSE finalizeSubActions(Store(r.mem, r.tmaps), act,
                                           todo \ {t})
                   : r \in finalizeActionTree(
                              S, act, S.mem[act].subActionLookup.tbl[t]) }
           : t \in todo }

\* parent and act are pointers; the set of the possible outcomes
finalizeActionTree(S, parent, act) ==
    LET a0 == S.mem[act]
    IN
    IF AlreadyFinalized(a0)
    THEN {Result(S, MkErr("DoubleFinalize", <<a0>>, << >>, << >>, "", ""))}
    ELSE IF a0.Trigger = ""
    THEN {Result(S, MkErr("EmptyTrigger", << >>, << >>, Path(a0), "", ""))}
    ELSE
      LET a1 == [a0 EXCEPT !.parent = parent]
          a2 == NormalizeMax(NormalizeMin(a1))
          a3 == SetupHelpTrigger(S, SetupHelpGen(S, SetupPath(S, a2)))
          S1 == Store([S.mem EXCEPT ![act] = a3], S.tmaps)
          inj == IF InjectsHelp(a3)
                 THEN AddSubAction(S1, act, HelpAction(a3.HelpTrigger, act))
                 ELSE Result(S1, NoErr)
      IN
      IF InjectionFails(inj.err)
      THEN {inj}
      ELSE
        LET S2 == CreateLookup(Store(inj.mem, inj.tmaps), act)
            S3 == MarkFinalized(S2, act)
        IN  finalizeSubActions(S3, act,
                               DOMAIN S3.mem[act].subActionLookup.tbl)

Finalize(S, act) == finalizeActionTree(S, 0, act)

----------------------------------------------------------------------------
(* Handlers *)

\* what a call act.Do(state, vargs...) gives back: the error, the state and
\* memory it leaves, and the chunks it wrote
DoResult(err, state, m, wrote) ==
    [err |-> err, state |-> state, mem |-> m, wrote |-> wrote]

\* a caller's handler
UserHandler(S, do, state, vargs) ==
    LET wrote == <<Chunk("do", do.id, << >>, << >>)>>
    IN  DoResult(IF do.fails
                 THEN MkErr("handler", << >>, << >>, << >>, "", do.id)
                 ELSE NoErr,
                 [state EXCEPT !.OutputStr = @ \o wrote], S.mem, wrote)

\* the handler of the injected help child; do.act is the captured pointer
HelpHandler(S, do, state, vargs) ==
    LET args == state.doArgs
        act == S.mem[do.act]
    IN
    IF Len(args) > 0
    THEN LET cmd == args[1]
             targetAct == GetSubAction(S, act, cmd)
             wrote == IF targetAct.Trigger = ""
                      THEN <<Chunk("notfound", cmd, Path(act), << >>)>>
                      ELSE Help(S, targetAct)
         IN  DoResult(NoErr, [state EXCEPT !.OutputStr = @ \o wrote],
                      S.mem, wrote)
    ELSE LET wrote == Help(S, act)
         IN  DoResult(NoErr, [state EXCEPT !.OutputStr = @ \o wrote],
                      [S.mem EXCEPT ![do.act].helpTextCached = wrote],
                      wrote)

CallDo(S, do, state, vargs) ==
    IF do.kind = "help" THEN HelpHandler(S, do, state, vargs)
    ELSE UserHandler(S, do, state, vargs)

\* the record of one handler invocation made by Parse on the Action act
LogEntry(act, state, vargs, d) ==
    [do |-> act.Do, node |-> Path(act), args |-> state.doArgs,
     vargs |-> vargs, wrote |-> d.wrote, err |-> d.err]

----------------------------------------------------------------------------
(* Parser *)

\* EarlyReturn without the test of finalized
EarlyReturnUnguarded(act, state, args) ==
    IF Len(args) = 0 THEN "nil"
    ELSE IF state.isNil THEN "NilState"
    ELSE "none"

\* EarlyReturn without the test of the state
EarlyReturnNoNilTest(act, state, args) ==
    IF ~act.finalized THEN "ActionNotFinalized"
    ELSE IF Len(args) = 0 THEN "nil"
    ELSE "none"

\* EarlyReturn testing the state before the length of args
EarlyReturnNilFirst(act, state, args) ==
    IF ~act.finalized THEN "ActionNotFinalized"
    ELSE IF state.isNil THEN "NilState"
    ELSE IF Len(args) = 0 THEN "nil"
    ELSE "none"

\* the checks Parse makes before it looks at the trigger: the error it
\* returns at once ("nil" for a nil error), or "none" to go on
EarlyReturn(act, state, args) ==
    IF ~act.finalized THEN "ActionNotFinalized"
    ELSE IF Len(args) = 0 THEN "nil"
    ELSE IF state.isNil THEN "NilState"
    ELSE "none"

\* Triggered by any first token
TriggeredAlways(act, args) == TRUE

Triggered(act, args) == act.Trigger = args[1]

\* args[1:]
Rest(args) == SubSeq(args, 2, Len(args))

\* TooFewArgs never reported
TooFewArgsNever(act, args) == FALSE

TooFewArgs(act, args) == Len(Rest(args)) < act.MinConsume

\* ConsumesAll without the case of a negative MaxConsume
ConsumesAllBoundedOnly(act, args) ==
    Len(SubSeq(args, 2, Len(args))) <= act.MaxConsume

ConsumesAll(act, args) ==
    act.MaxConsume < 0 \/ Len(Rest(args)) <= act.MaxConsume

\* Consumed one token short: args[1 : act.MaxConsume]
ConsumedShort(act, args) == SubSeq(args, 2, act.MaxConsume)

\* Consumed beginning at the trigger: args[0 : act.MaxConsume]
ConsumedWithTrigger(act, args) == SubSeq(args, 1, act.MaxConsume)

\* args[1 : act.MaxConsume+1]
Consumed(act, args) == SubSeq(args, 2, act.MaxConsume + 1)

\* Remaining one token early: args[act.MaxConsume:]
RemainingEarly(act, args) == SubSeq(args, act.MaxConsume + 1, Len(args))

\* args[act.MaxConsume+1:]
Remaining(act, args) == SubSeq(args, act.MaxConsume + 2, Len(args))

\* the call form f(state, vargs) of a variadic f: the slice becomes one value
SpreadWrapped(vargs) == <<vargs>>

\* the call form f(state, vargs...): the slice is passed on as it is
Spread(vargs) == vargs

HasSubAction(act, token) == token \in DOMAIN act.subActionLookup.tbl

\* the handler's error dropped
AbortsNever(err) == FALSE

\* a handler's error ends the call
Aborts(err) == err.kind # "nil"

\* what a call of Parse gives back: the error, the state and memory it
\* leaves, the handler invocations it made, and the token sequences the
\* calls of Parse below it were entered with
ParseResult(err, state, m, log) ==
    [err |-> err, state |-> state, mem |-> m, log |-> log, levels |-> << >>]

RECURSIVE Parse(_, _, _, _, _)

\* act is a value (value receiver), state a *State
Parse(S, act, state, args, vargs) ==
    LET early == EarlyReturn(act, state, args)
    IN
    IF early = "ActionNotFinalized"
    THEN ParseResult(MkErr("ActionNotFinalized", <<act>>, << >>, << >>,
                           "", ""), state, S.mem, << >>)
    ELSE IF early = "nil"
    THEN ParseResult(NoErr, state, S.mem, << >>)
    ELSE IF early = "NilState"
    THEN ParseResult(MkErr("NilState", << >>, << >>, << >>, "", ""),
                     state, S.mem, << >>)
    ELSE IF ~Triggered(act, args)
    THEN ParseResult(NoErr, state, S.mem, << >>)
    ELSE IF TooFewArgs(act, args)
    THEN ParseResult(MkErr("TooFewArgs", <<act>>, Rest(args), << >>,
                           "", ""), state, S.mem, << >>)
    ELSE IF ConsumesAll(act, args)
    THEN LET st == [state EXCEPT !.doArgs = Rest(args)]
         IN  IF act.Do.kind # "nil"
             THEN LET d == CallDo(S, act.Do, st, Spread(vargs))
                  IN  ParseResult(d.err, d.state, d.mem,
                                  <<LogEntry(act, st, Spread(vargs), d)>>)
             ELSE ParseResult(NoErr, st, S.mem, << >>)
    ELSE
      LET st == [state EXCEPT !.doArgs = Consumed(act, args)]
          rem == Remaining(act, args)
          called == act.Do.kind # "nil"
          d == IF called THEN CallDo(S, act.Do, st, Spread(vargs))
               ELSE DoResult(NoErr, st, S.mem, << >>)
          log == IF called THEN <<LogEntry(act, st, Spread(vargs), d)>>
                 ELSE << >>
      IN
      IF Aborts(d.err)
      THEN ParseResult(d.err, d.state, d.mem, log)
      ELSE IF HasSubAction(act, rem[1])
      THEN LET r == Parse(Store(d.mem, S.tmaps),
                          d.mem[act.subActionLookup.tbl[rem[1]]],
                          d.state, rem, Spread(vargs))
           IN  [r EXCEPT !.log = log \o @, !.levels = <<rem>> \o @]
      ELSE ParseResult(NoErr, d.state, d.mem, log)

----------------------------------------------------------------------------
(* The caller's program *)

\* a state that an earlier Parse has used
UsedState ==
    [isNil |-> FALSE, OutputStr |-> <<Chunk("do", "earlier", << >>, << >>)>>,
     doArgs |-> <<"earlier">>]

StateChoices == {NilState, UsedState}

\* token sequences of length 0..MaxTokens
RECURSIVE SeqsUpTo(_)
SeqsUpTo(n) ==
    IF n = 0 THEN {<< >>}
    ELSE LET shorter == SeqsUpTo(n - 1)
         IN  shorter \cup {Append(q, t) : q \in {x \in shorter : Len(x) = n - 1},
                                          t \in Tokens}

ArgsChoices == SeqsUpTo(MaxTokens)

TriggerOf(v) == AllTriggers[v]

HandlerOf(v) == <<"h1", "h2", "h3">>[v]

\* the Action literals a caller's variable v is initialised from
ActionChoices(v) ==
    {[ZeroAction EXCEPT !.Trigger = TriggerOf(v), !.MinConsume = mn,
                        !.MaxConsume = mx, !.Do = do]
       : mn \in IF v = 1 THEN {-1, 0, 1} ELSE {0},
         mx \in IF v = 1 THEN {-1, 0, 1} ELSE {0},
         do \in IF v = 1
                THEN {NilDo, UserDo(HandlerOf(v), FALSE),
                      UserDo(HandlerOf(v), TRUE)}
                ELSE {UserDo(HandlerOf(v), FALSE)}}

\* the record of the last call the caller made
Call(op, v, before, state, args, vargs, err, out, log) ==
    [op |-> op, v |-> v, before |-> before, state |-> state, args |-> args,
     vargs |-> vargs, err |-> err, out |-> out, log |-> log]

NoCall ==
    Call("none", 0, ZeroAction, NilState, << >>, << >>, NoErr, NilState, << >>)

\* the registries named by the entries of registry i
RegistrySuccessors(t, i) ==
    {t[i][k].subActionLookupTemp : k \in DOMAIN t[i]} \ {0}

\* the registries reachable from those of from in at most n steps
RECURSIVE RegistriesWithin(_, _, _)
RegistriesWithin(t, from, n) ==
    IF n = 0 THEN from
    ELSE RegistriesWithin(
           t, from \cup UNION {RegistrySuccessors(t, i) : i \in from}, n - 1)

\* Finalize recurses once for every entry of every registry it meets: it
\* returns only when no registry below act reaches itself
Terminates(S, act) ==
    LET t == S.tmaps
        below == RegistriesWithin(t, {S.mem[act].subActionLookupTemp} \ {0},
                                  Len(t))
    IN  \A i \in below :
            i \notin RegistriesWithin(t, RegistrySuccessors(t, i), Len(t))

\* the caller's record of what it has done with each of its variables in
\* V: finalizeCalls[v] counts the Finalize calls on variable v (2 stands
\* for two or more).  Only the programs that look at it keep it.
NoCalls(V) == [finalizeCalls |-> [v \in V |-> 0]]

Init ==
    /\ mem \in {m \in [Vars -> UNION {ActionChoices(v) : v \in Vars}] :
                  \A v \in Vars : m[v] \in ActionChoices(v)}
    /\ tmaps = << >>
    /\ last = NoCall
    /\ nParses = 0
    /\ calls = NoCalls(Vars)

\* the caller builds and finalizes its trees before it parses with them
Building == last.op # "Parse"

\* the Actions attached so far by the caller: the registry entries that are
\* not an injected help child
Attached ==
    {<<i, k>> \in UNION {{<<j, key>> : key \in DOMAIN tmaps[j]}
                           : j \in 1..Len(tmaps)} :
        tmaps[i][k].Do.kind # "help"}

\* p.AddSubAction(c) on the caller's variables p and c
AddSubActionStep(p, c) ==
    LET r == AddSubAction(Store(mem, tmaps), p, mem[c])
    IN  /\ mem' = r.mem
        /\ tmaps' = r.tmaps
        /\ last' = Call("AddSubAction", p, mem[c], NilState, << >>,
                        << >>, r.err, NilState, << >>)
        /\ UNCHANGED nParses

\* v.Finalize() on the caller's variable v
FinalizeStep(v) ==
    /\ Terminates(Store(mem, tmaps), v)
    /\ \E r \in Finalize(Store(mem, tmaps), v) :
           /\ mem' = r.mem
           /\ tmaps' = r.tmaps
           /\ last' = Call("Finalize", v, mem[v], NilState, << >>,
                           << >>, r.err, NilState, << >>)
    /\ UNCHANGED nParses

\* v.Parse(state, args, vargs...) on the caller's variable v
ParseStep(v, state, args, vargs) ==
    LET r == Parse(Store(mem, tmaps), mem[v], state, args, vargs)
    IN  /\ nParses' = nParses + 1
        /\ mem' = r.mem
        /\ last' = Call("Parse", v, mem[v], state, args, vargs, r.err,
                        r.state, r.log)
        /\ UNCHANGED tmaps

AddSubActionCall ==
    \E p \in Vars, c \in Vars :
        /\ Building
        /\ Cardinality(Attached) < MaxAdds
        /\ AddSubActionStep(p, c)
        /\ UNCHANGED calls

FinalizeCall ==
    \E v \in Vars :
        /\ Building
        /\ FinalizeStep(v)
        /\ UNCHANGED calls

ParseCall ==
    \E v \in Vars, state \in StateChoices, args \in ArgsChoices,
       vargs \in VargsChoices :
        /\ nParses < MaxParses
        /\ ParseStep(v, state, args, vargs)
        /\ UNCHANGED calls

Next == AddSubActionCall \/ FinalizeCall \/ ParseCall

Spec == Init /\ [][Next]_vars

----------------------------------------------------------------------------
(* Properties of Parse.  They are read off the record of the last call:    *)
(* last.before is the Action Parse was called on, last.state, last.args    *)
(* and last.vargs what it was given, last.err what it returned, last.out   *)
(* the state it left and last.log the handler invocations it made.         *)

LastParse == last.op = "Parse"

ParsedAct == last.before

\* the call got past the early checks: finalized, tokens, a state
Engaged ==
    LastParse /\ ParsedAct.finalized /\ last.args # << >>
    /\ ~last.state.isNil

\* ... and its first token is the trigger
Matches == Engaged /\ last.args[1] = ParsedAct.Trigger

RestOfArgs == Tail(last.args)

HasDo(act) == act.Do.kind # "nil"

Children(act) == DOMAIN act.subActionLookup.tbl

ChildOf(act, trigger) == mem[act.subActionLookup.tbl[trigger]]

\* the chunks the logged invocations wrote, in order
RECURSIVE Written(_)
Written(log) ==
    IF log = << >> THEN << >> ELSE Head(log).wrote \o Written(Tail(log))

\* C1: a matched node with MaxConsume >= 0 and more than MaxConsume tokens
\* after its trigger hands exactly the first MaxConsume of them to its
\* handler; then (the handler absent or successful) the next token selects
\* a child: if there is one, the call is the Parse of that child on the
\* tokens from that token on, with the same state and extra values; if there
\* is none, the call succeeds with no further handler invoked.
C1_ConsumeThenDispatch ==
    (Matches /\ ParsedAct.MaxConsume >= 0
     /\ Len(RestOfArgs) > ParsedAct.MaxConsume) =>
        LET n == ParsedAct.MaxConsume
            own == SubSeq(RestOfArgs, 1, n)
            after == SubSeq(RestOfArgs, n + 1, Len(RestOfArgs))
            hasDo == HasDo(ParsedAct)
        IN  /\ hasDo =>
                /\ Len(last.log) >= 1
                /\ last.log[1].do = ParsedAct.Do
                /\ last.log[1].node = Path(ParsedAct)
                /\ last.log[1].args = own
                /\ last.log[1].vargs = last.vargs
            /\ (hasDo => last.log[1].err = NoErr) =>
                LET ownLog == IF hasDo THEN <<last.log[1]>> ELSE << >>
                    st == [isNil |-> FALSE,
                           OutputStr |-> last.state.OutputStr
                                           \o Written(ownLog),
                           doArgs |-> own]
                IN  IF after[1] \in Children(ParsedAct)
                    THEN LET r == Parse(Store(mem, tmaps),
                                        ChildOf(ParsedAct, after[1]),
                                        st, after, last.vargs)
                         IN  /\ last.err = r.err
                             /\ last.out = r.state
                             /\ last.log = ownLog \o r.log
                    ELSE /\ last.err = NoErr
                         /\ last.out = st
                         /\ last.log = ownLog

\* a node consumed one token and then dispatched to a child whose handler ran
C1_Witness ==
    /\ Matches
    /\ ParsedAct.MaxConsume = 1
    /\ Len(RestOfArgs) = 2
    /\ Len(last.log) = 2
    /\ last.log[1].args = <<RestOfArgs[1]>>
    /\ last.log[2].node = Path(ParsedAct) \o <<RestOfArgs[2]>>
    /\ last.err = NoErr

\* C2: a matched node with at least MinConsume tokens after its trigger and
\* MaxConsume negative or not exceeded hands all of them to its handler, and
\* no other handler runs, even when one of the tokens is a child's trigger.
C2_ConsumeAllIsLeaf ==
    (Matches /\ Len(RestOfArgs) >= ParsedAct.MinConsume
     /\ (ParsedAct.MaxConsume < 0
         \/ Len(RestOfArgs) <= ParsedAct.MaxConsume)) =>
        /\ HasDo(ParsedAct) =>
              /\ Len(last.log) = 1
              /\ last.log[1].do = ParsedAct.Do
              /\ last.log[1].node = Path(ParsedAct)
              /\ last.log[1].args = RestOfArgs
              /\ last.err = last.log[1].err
        /\ ~HasDo(ParsedAct) => last.log = << >> /\ last.err = NoErr
        /\ last.out.doArgs = RestOfArgs
        /\ last.out.OutputStr = last.state.OutputStr \o Written(last.log)

\* the consumed token is the trigger of a child that has a handler
C2_Witness ==
    /\ Matches
    /\ ParsedAct.MaxConsume = 1
    /\ Len(RestOfArgs) = 1
    /\ RestOfArgs[1] \in Children(ParsedAct)
    /\ HasDo(ChildOf(ParsedAct, RestOfArgs[1]))
    /\ Len(last.log) = 1
    /\ last.log[1].args = RestOfArgs

\* the nodes of the tree below the Action at address a, a included
RECURSIVE Below(_, _)
Below(from, n) ==
    IF n = 0 THEN from
    ELSE Below(from \cup UNION {{mem[x].subActionLookup.tbl[t]
                                   : t \in Children(mem[x])} : x \in from},
               n - 1)

NodesUnder(a) == Below({a}, Len(mem))

\* the consume range of fin is the normalization of that of raw
NormalizedFrom(raw, fin) ==
    /\ fin.MinConsume = (IF raw.MinConsume < 0 THEN 0 ELSE raw.MinConsume)
    /\ fin.MaxConsume =
          (IF raw.MaxConsume >= 0 /\ raw.MaxConsume < fin.MinConsume
           THEN fin.MinConsume ELSE raw.MaxConsume)

\* the registry entry the tree node under parent x with trigger t was
\* copied from
RawChild(x, t) == tmaps[mem[x].subActionLookupTemp][t]

\* C3: after a successful Finalize of a root every node of its tree has
\* MinConsume >= 0 and MaxConsume negative or >= MinConsume: a negative
\* MinConsume became 0, a MaxConsume in [0, MinConsume) became MinConsume and
\* a negative MaxConsume stayed as it was.
C3_FinalizeNormalizes ==
    (last.op = "Finalize" /\ last.err = NoErr) =>
        /\ \A n \in NodesUnder(last.v) :
              /\ mem[n].MinConsume >= 0
              /\ mem[n].MaxConsume < 0
                 \/ mem[n].MaxConsume >= mem[n].MinConsume
              /\ \A t \in Children(mem[n]) :
                    NormalizedFrom(RawChild(n, t), ChildOf(mem[n], t))
        /\ NormalizedFrom(last.before, mem[last.v])

\* a child attached with MinConsume 1 and MaxConsume 0 has MaxConsume 1 in
\* the finalized tree
C3_Witness ==
    /\ last.op = "Finalize"
    /\ last.err = NoErr
    /\ \E t \in Children(mem[last.v]) :
          /\ RawChild(last.v, t).MinConsume = 1
          /\ RawChild(last.v, t).MaxConsume = 0
          /\ ChildOf(mem[last.v], t).MaxConsume = 1

\* C4: Parse on an Action that is not finalized returns ActionNotFinalized
\* carrying that Action, whatever the state (nil or not) and the tokens are,
\* invokes no handler and leaves the state as it was.
C4_NotFinalized ==
    (LastParse /\ ~ParsedAct.finalized) =>
        /\ last.err = MkErr("ActionNotFinalized", <<ParsedAct>>, << >>,
                            << >>, "", "")
        /\ last.log = << >>
        /\ last.out = last.state

\* an Action with a handler and a child, not finalized, parsed with a state
\* and its own trigger
C4_Witness ==
    /\ LastParse
    /\ ~ParsedAct.finalized
    /\ ~last.state.isNil
    /\ Len(last.args) = 2
    /\ last.args[1] = ParsedAct.Trigger
    /\ HasDo(ParsedAct)
    /\ ParsedAct.subActionLookupTemp # 0
    /\ last.args[2] \in DOMAIN tmaps[ParsedAct.subActionLookupTemp]

\* C5 as stated: Parse on a finalized Action with a nil state returns
\* NilState for every token sequence, the empty one included.
C5_NilStateAlways ==
    (LastParse /\ ParsedAct.finalized /\ last.state.isNil) =>
        last.err.kind = "NilState"

\* C5 amended: Parse on a finalized Action with a nil state and at least one
\* token returns NilState, whether or not the first token is the trigger.
C5_NilStateWithTokens ==
    (LastParse /\ ParsedAct.finalized /\ last.state.isNil
     /\ last.args # << >>) =>
        /\ last.err = MkErr("NilState", << >>, << >>, << >>, "", "")
        /\ last.log = << >>

\* a nil state and a first token that is not the trigger
C5_Witness ==
    /\ LastParse
    /\ ParsedAct.finalized
    /\ last.state.isNil
    /\ last.args # << >>
    /\ last.args[1] # ParsedAct.Trigger
    /\ last.err.kind = "NilState"

\* C6: Parse on a finalized Action with no tokens succeeds, invokes no
\* handler and leaves the state's consumed args and output as they were.
C6_EmptyArgs ==
    (LastParse /\ ParsedAct.finalized /\ last.args = << >>) =>
        /\ last.err = NoErr
        /\ last.log = << >>
        /\ last.out = last.state

\* a finalized Action with a handler, a used state and no tokens
C6_Witness ==
    /\ LastParse
    /\ ParsedAct.finalized
    /\ last.args = << >>
    /\ HasDo(ParsedAct)
    /\ ~last.state.isNil
    /\ last.state.OutputStr # << >>

\* C7: Parse on a finalized Action, with a state, of tokens whose first is
\* not the trigger succeeds with no effect: no handler is invoked and the
\* state's consumed args and output are as they were, whatever the later
\* tokens are.
C7_NoMatchNoEffect ==
    (Engaged /\ last.args[1] # ParsedAct.Trigger) =>
        /\ last.err = NoErr
        /\ last.log = << >>
        /\ last.out = last.state

\* the later tokens are the trigger and the trigger of a child
C7_Witness ==
    /\ Engaged
    /\ Len(last.args) = 3
    /\ last.args[1] # ParsedAct.Trigger
    /\ last.args[2] = ParsedAct.Trigger
    /\ last.args[3] \in Children(ParsedAct)
    /\ HasDo(ParsedAct)
    /\ last.err = NoErr

\* the error Parse returns for too few tokens after the trigger of act
TooFewArgsOf(act, rest) ==
    MkErr("TooFewArgs", <<act>>, rest, << >>, "", "")

\* C8: when the trigger of a finalized Action matches and fewer than
\* MinConsume tokens follow it, Parse returns TooFewArgs carrying that Action
\* and exactly those tokens, and does not invoke its handler; so it is for a
\* child reached by recursion: the error carries the child and the tokens
\* after the child's trigger, and the child's handler is not invoked.
C8_TooFewArgs ==
    /\ (Matches /\ Len(RestOfArgs) < ParsedAct.MinConsume) =>
          /\ last.err = TooFewArgsOf(ParsedAct, RestOfArgs)
          /\ last.log = << >>
    /\ (Matches /\ ParsedAct.MaxConsume >= 0
        /\ Len(RestOfArgs) > ParsedAct.MaxConsume
        /\ ~(HasDo(ParsedAct) /\ ParsedAct.Do.fails)) =>
          LET after == SubSeq(RestOfArgs, ParsedAct.MaxConsume + 1,
                              Len(RestOfArgs))
          IN  (/\ after[1] \in Children(ParsedAct)
               /\ ChildOf(ParsedAct, after[1]).finalized
               /\ Len(Tail(after))
                    < ChildOf(ParsedAct, after[1]).MinConsume) =>
                 /\ last.err = TooFewArgsOf(ChildOf(ParsedAct, after[1]),
                                            Tail(after))
                 /\ \A i \in 1..Len(last.log) :
                       last.log[i].node = Path(ParsedAct)
    /\ (LastParse /\ last.err.kind = "TooFewArgs") =>
          LET victim == last.err.victim[1]
              at == Len(last.args) - Len(last.err.args)
          IN  /\ at >= 1
              /\ last.args[at] = victim.Trigger
              /\ last.err.args = SubSeq(last.args, at + 1, Len(last.args))
              /\ Len(last.err.args) < victim.MinConsume
              /\ \E n \in NodesUnder(last.v) : mem[n] = victim
              /\ \A i \in 1..Len(last.log) :
                    last.log[i].node # Path(victim)

\* a child with a handler is reached by recursion with too few tokens, after
\* the handler of its parent ran
C8_Witness ==
    /\ Matches
    /\ last.err.kind = "TooFewArgs"
    /\ last.err.victim[1] # ParsedAct
    /\ HasDo(last.err.victim[1])
    /\ Len(last.log) = 1
    /\ last.log[1].node = Path(ParsedAct)

\* the Actions whose trigger a Parse of args on act matches with enough
\* tokens to consume, root first: act itself, then, when tokens remain after
\* MaxConsume of them and the handler of act did not fail, the ones matched
\* from the child named by the next token
RECURSIVE MatchedPath(_, _)
MatchedPath(act, args) ==
    IF ~act.finalized \/ args = << >> THEN << >>
    ELSE IF args[1] # act.Trigger \/ Len(Tail(args)) < act.MinConsume
    THEN << >>
    ELSE IF act.MaxConsume < 0 \/ Len(Tail(args)) <= act.MaxConsume
    THEN <<act>>
    ELSE IF HasDo(act) /\ act.Do.fails THEN <<act>>
    ELSE LET after == SubSeq(args, act.MaxConsume + 2, Len(args))
         IN  IF after[1] \in Children(act)
             THEN <<act>> \o MatchedPath(ChildOf(act, after[1]), after)
             ELSE <<act>>

\* C9: during one Parse the handlers invoked are those of the Actions on
\* the matched path that define one, each once, from the root down, and no
\* other; the output after the call is the output before it followed by
\* what these handlers wrote, in that order.
C9_HandlersAlongPath ==
    (LastParse /\ ParsedAct.finalized /\ ~last.state.isNil) =>
        LET expected == SelectSeq(MatchedPath(ParsedAct, last.args), HasDo)
        IN  /\ Len(last.log) = Len(expected)
            /\ \A i \in 1..Len(last.log) :
                  /\ last.log[i].do = expected[i].Do
                  /\ last.log[i].node = Path(expected[i])
            /\ last.out.OutputStr
                 = last.state.OutputStr \o Written(last.log)

\* three handlers ran, root to leaf, in a tree whose root has a child off
\* the matched path
C9_Witness ==
    /\ LastParse
    /\ Len(last.log) = 3
    /\ Cardinality(Children(ParsedAct)) >= 2
    /\ \E t \in Children(ParsedAct) :
          /\ HasDo(ChildOf(ParsedAct, t))
          /\ t # last.args[2]

\* C10: when a handler returns an error, Parse returns that error as it is
\* and stops: the failed invocation is the last one, in the branch that
\* consumes all tokens and in the one that consumes MaxConsume of them.
C10_HandlerErrorStops ==
    LastParse =>
        /\ \A i \in 1..Len(last.log) :
              last.log[i].err # NoErr =>
                  /\ i = Len(last.log)
                  /\ last.err = last.log[i].err
                  /\ last.err = MkErr("handler", << >>, << >>, << >>, "",
                                      last.log[i].do.id)
        /\ \A i \in 1..Len(last.log) :
              last.log[i].do.fails => last.log[i].err # NoErr
        /\ last.err.kind = "handler" =>
              /\ last.log # << >>
              /\ last.log[Len(last.log)].err = last.err

\* a handler failed after consuming MaxConsume tokens, and the next token
\* names a child with a handler
C10_Witness ==
    /\ Matches
    /\ ParsedAct.MaxConsume >= 0
    /\ Len(RestOfArgs) > ParsedAct.MaxConsume
    /\ ParsedAct.Do.fails
    /\ RestOfArgs[ParsedAct.MaxConsume + 1] \in Children(ParsedAct)
    /\ HasDo(ChildOf(ParsedAct, RestOfArgs[ParsedAct.MaxConsume + 1]))
    /\ last.err.kind = "handler"
    /\ Len(last.log) = 1

----------------------------------------------------------------------------
(* A caller that builds trees out of Actions with the help settings, an    *)
(* empty trigger or a trigger that is the help trigger, attaches values    *)
(* it reads back from a tree, and keeps a record of its calls.             *)

\* the Action literals variable v is initialised from
TreeChoices(v) ==
    IF v = 1
    THEN LET base == [ZeroAction EXCEPT !.Trigger = TriggerOf(1)]
         IN  {base,
              [base EXCEPT !.Do = UserDo(HandlerOf(1), FALSE)],
              [base EXCEPT !.DisableHelp = TRUE],
              [base EXCEPT !.DisableHelp = TRUE,
                           !.Do = UserDo(HandlerOf(1), FALSE)],
              [base EXCEPT !.MaxConsume = -1],
              [base EXCEPT !.MaxConsume = 1],
              [base EXCEPT !.MinConsume = 1],
              [base EXCEPT !.Trigger = ""],
              [base EXCEPT !.HelpTrigger = TriggerOf(2)],
              [base EXCEPT !.HelpGen = "gen1"]}
    ELSE LET base == [ZeroAction EXCEPT !.Trigger = TriggerOf(2),
                                        !.Do = UserDo(HandlerOf(2), FALSE)]
         IN  {base,
              [base EXCEPT !.Trigger = "help"],
              [base EXCEPT !.HelpGen = "gen2"]}

TreeInit ==
    /\ mem \in {m \in [Vars -> UNION {TreeChoices(v) : v \in Vars}] :
                  \A v \in Vars : m[v] \in TreeChoices(v)}
    /\ tmaps = << >>
    /\ last = NoCall
    /\ nParses = 0
    /\ calls = NoCalls(Vars)

\* p.AddSubAction(c) on the caller's variables p and c
TreeAddSubActionCall ==
    \E p \in Vars, c \in Vars :
        /\ Building
        /\ Cardinality(Attached) < MaxAdds
        /\ AddSubActionStep(p, c)
        /\ UNCHANGED calls

\* p.AddSubAction(q.GetSubAction(t)): the value passed is a child read back
\* from a tree, or Action{} when q has no child t
TreeAddSubActionOfChildCall ==
    \E p \in Vars, q \in Vars, t \in Tokens :
        LET S == Store(mem, tmaps)
            child == GetSubAction(S, mem[q], t)
            r == AddSubAction(S, p, child)
        IN  /\ Building
            /\ mem' = r.mem
            /\ tmaps' = r.tmaps
            /\ last' = Call("AddSubAction", p, child, NilState, << >>,
                            << >>, r.err, NilState, << >>)
            /\ UNCHANGED <<nParses, calls>>

\* v.Finalize() on the caller's variable v
TreeFinalizeCall ==
    \E v \in Vars :
        /\ Building
        /\ FinalizeStep(v)
        /\ calls' = [calls EXCEPT
                        !.finalizeCalls[v] = IF @ < 2 THEN @ + 1 ELSE @]

\* v.Parse(&State{}, args, vargs...) on the caller's variable v, once the
\* caller has finalized, with tokens that begin with the trigger of v
TreeParseCall ==
    \E v \in Vars, args \in ArgsChoices, vargs \in VargsChoices :
        /\ nParses < MaxParses
        /\ last.op = "Finalize"
        /\ args # << >>
        /\ args[1] = mem[v].Trigger
        /\ ParseStep(v, FreshState, args, vargs)
        /\ UNCHANGED calls

TreeNext ==
    \/ TreeAddSubActionCall
    \/ TreeAddSubActionOfChildCall
    \/ TreeFinalizeCall
    \/ TreeParseCall

TreeSpec == TreeInit /\ [][TreeNext]_vars

----------------------------------------------------------------------------
(* A caller with four Actions, root, sub1, sub2 and common, that attaches  *)
(* common under more than one of the others, finalizes root and parses     *)
(* with it twice.                                                          *)

CommonVars == {1, 2, 3, 4}

CommonTrigger(v) == <<"a", "b", "c", "d">>[v]

CommonHandler(v) == <<"h1", "h2", "h3", "h4">>[v]

\* the Action literals variable v is initialised from
CommonChoices(v) ==
    {[ZeroAction EXCEPT !.Trigger = CommonTrigger(v),
                        !.Do = UserDo(CommonHandler(v), FALSE),
                        !.MaxConsume = mx,
                        !.Hidden = hidden]
       : mx \in IF v = 4 THEN {0, -1} ELSE {0},
         hidden \in IF v = 2 THEN {FALSE, TRUE} ELSE {FALSE}}

\* the calls p.AddSubAction(c) this caller makes: an Action goes under an
\* earlier one, and common also under itself
CommonPairs ==
    {pc \in CommonVars \X CommonVars : pc[1] < pc[2]} \cup {<<4, 4>>}

\* the token sequences this caller parses
CommonArgs ==
    {<<"a", "b", "d">>, <<"a", "c", "d">>, <<"a", "d">>, <<"a", "b">>}

CommonInit ==
    /\ mem \in {m \in [CommonVars ->
                          UNION {CommonChoices(v) : v \in CommonVars}] :
                  \A v \in CommonVars : m[v] \in CommonChoices(v)}
    /\ tmaps = << >>
    /\ last = NoCall
    /\ nParses = 0
    /\ calls = NoCalls(CommonVars)

CommonAddSubActionCall ==
    \E pc \in CommonPairs :
        /\ Building
        /\ ~mem[1].finalized
        /\ Cardinality(Attached) < MaxCommonAdds
        /\ AddSubActionStep(pc[1], pc[2])
        /\ UNCHANGED calls

\* root.Finalize()
CommonFinalizeCall ==
    /\ Building
    /\ ~mem[1].finalized
    /\ FinalizeStep(1)
    /\ UNCHANGED calls

\* root.Parse(&State{}, args, vargs...)
CommonParseCall ==
    \E args \in CommonArgs, vargs \in VargsChoices :
        /\ nParses < MaxCommonParses
        /\ mem[1].finalized
        /\ ParseStep(1, FreshState, args, vargs)
        /\ UNCHANGED calls

CommonNext ==
    \/ CommonAddSubActionCall
    \/ CommonFinalizeCall
    \/ CommonParseCall

CommonSpec == CommonInit /\ [][CommonNext]_vars

----------------------------------------------------------------------------
(* Properties of the extra values *)

\* C11: every handler invoked during a Parse receives the extra values the
\* caller gave to the top-level Parse: as many values, the same values, in
\* the same order, at every depth of the recursion.
C11_VargsForwarded ==
    LastParse =>
        \A i \in 1..Len(last.log) :
            /\ Len(last.log[i].vargs) = Len(last.vargs)
            /\ last.log[i].vargs = last.vargs

\* three handlers ran, the last two reached by recursion, on two extra
\* values
C11_Witness ==
    /\ LastParse
    /\ Len(last.vargs) = 2
    /\ Len(last.log) = 3
    /\ Len(last.log[3].node) = 3
    /\ last.log[3].vargs = last.vargs

----------------------------------------------------------------------------
(* Properties of AddSubAction.  last.v is the parent the call was made on, *)
(* last.before the Action value it was given.                              *)

LastAdd == last.op = "AddSubAction"

\* the copies of the caller's Action with this trigger that are attached
CopiesOf(trigger) == {e \in Attached : e[2] = trigger}

\* the Action given to the last AddSubAction was attached by an earlier
\* call: a copy of it is in a registry, not counting the one this call made
AttachedEarlier ==
    Cardinality(CopiesOf(last.before.Trigger))
        >= (IF last.err = NoErr THEN 2 ELSE 1)

\* C12 as stated: AddSubAction of an Action that an earlier AddSubAction
\* attached is rejected with ActionAlreadyAssigned, under the same or any
\* other parent, and no Action is attached under more than one parent.
C12_ReattachRejected ==
    /\ (LastAdd /\ AttachedEarlier) =>
          last.err.kind = "ActionAlreadyAssigned"
    /\ \A v \in Vars : Cardinality(CopiesOf(mem[v].Trigger)) <= 1

\* C12 as the code has it: AddSubAction returns ActionAlreadyAssigned, with
\* the path of the value, exactly when the value it is given has a trigger
\* and carries a parent, as a value read back from a tree does; the
\* caller's own variable never carries one, so attaching it again is not
\* rejected for that reason.
C12_AssignedValueRejected ==
    /\ LastAdd =>
          /\ last.err.kind = "ActionAlreadyAssigned"
                <=> (last.before.Trigger # "" /\ last.before.parent # 0)
          /\ last.err.kind = "ActionAlreadyAssigned" =>
                last.err = MkErr("ActionAlreadyAssigned", << >>, << >>,
                                 Path(last.before), "", "")
    /\ \A v \in Vars : mem[v].parent = 0
    /\ \A e \in Attached : tmaps[e[1]][e[2]].parent # 0

\* a variable is attached under two parents, and a child read back from a
\* tree is then rejected
C12_Witness ==
    /\ LastAdd
    /\ last.err.kind = "ActionAlreadyAssigned"
    /\ Len(last.err.path) = 2
    /\ \E v \in Vars : Cardinality(CopiesOf(mem[v].Trigger)) = 2

----------------------------------------------------------------------------
(* Properties of a child shared between two parents *)

\* the registry of Action value act
Registry(act) ==
    IF act.subActionLookupTemp = 0 THEN << >>
    ELSE tmaps[act.subActionLookupTemp]

\* root is finalized, and as the caller built it the child sub of root has
\* the child d
HasCommonUnder(sub) ==
    /\ mem[1].finalized
    /\ sub \in DOMAIN Registry(mem[1])
    /\ "d" \in DOMAIN Registry(Registry(mem[1])[sub])

\* the invocation of the caller's handler h, as Parse logs it at node
HandlerRun(h, node) ==
    [do |-> UserDo(h, FALSE), node |-> node, args |-> << >>,
     vargs |-> last.vargs,
     wrote |-> <<Chunk("do", h, << >>, << >>)>>, err |-> NoErr]

\* C13: one Action value passed to AddSubAction of two parents is accepted
\* by both, the Finalize of the root above them succeeds, and parsing the
\* root's, a parent's and the common trigger runs the handlers of the root,
\* of that parent and of the common Action, in this order, whichever of the
\* two parents is named and whatever was parsed before.
C13_CommonChild ==
    /\ (LastAdd /\ last.before.Trigger = "d" /\ last.v \in {2, 3}
         /\ last.err # NoErr) =>
           /\ last.err.kind = "DuplicatedSubAction"
           /\ Cardinality({e \in CopiesOf("d") :
                              e[1] = mem[last.v].subActionLookupTemp}) = 1
    /\ (last.op = "Finalize") => last.err = NoErr
    /\ \A sub \in {"b", "c"} :
          (LastParse /\ last.args = <<"a", sub, "d">>
           /\ HasCommonUnder(sub)) =>
             /\ last.err = NoErr
             /\ last.log =
                   <<HandlerRun("h1", <<"a">>),
                     HandlerRun(IF sub = "b" THEN "h2" ELSE "h3",
                                <<"a", sub>>),
                     HandlerRun("h4", <<"a", sub, "d">>)>>
             /\ last.out.OutputStr = Written(last.log)

\* the common Action is under both parents, the tokens naming it under
\* sub1 and under sub2 have both been parsed, and each parse ran three
\* handlers
C13_Witness ==
    /\ LastParse
    /\ nParses = 2
    /\ HasCommonUnder("b")
    /\ HasCommonUnder("c")
    /\ last.args = <<"a", "c", "d">>
    /\ Len(last.log) = 3
    /\ Cardinality(CopiesOf("d")) >= 2

\* a step that is a call of AddSubAction
AddStep == last'.op = "AddSubAction" /\ last' # last

\* no Action lists a trigger twice among its children
NoTwinSiblings ==
    \A act \in {mem[i] : i \in 1..Len(mem)}
               \cup {tmaps[e[1]][e[2]] : e \in Attached} :
        \A i, j \in 1..Len(SubActions(act)) :
            SubActions(act)[i] = SubActions(act)[j] => i = j

\* C14: AddSubAction of a detached child whose trigger is already in the
\* parent's registry returns DuplicatedSubAction with that trigger and
\* changes nothing: the entry of the first child and the parent's ordered
\* child list stay as they were, so no two siblings share a trigger.
C14_DuplicateRejected ==
    /\ [][(AddStep /\ last'.before.parent = 0
            /\ last'.before.Trigger \in DOMAIN Registry(mem[last'.v])) =>
              /\ last'.err = MkErr("DuplicatedSubAction", << >>, << >>,
                                   << >>, last'.before.Trigger, "")
              /\ mem' = mem
              /\ tmaps' = tmaps]_vars
    /\ []NoTwinSiblings

\* a child is rejected whose trigger is that of another Action attached
\* before: the first one has another handler
C14_Witness ==
    /\ LastAdd
    /\ last.err.kind = "DuplicatedSubAction"
    /\ last.before.parent = 0
    /\ Registry(mem[last.v])[last.before.Trigger].Do # last.before.Do
    /\ Len(SubActions(mem[last.v])) = 2

\* the error AddSubAction returns for a child below parent
UnreachableOf(parent, child) ==
    MkErr("UnreachableAction", << >>, << >>,
          Path(parent) \o <<child.Trigger>>, "", "")

\* C15 as stated: AddSubAction on a parent with MaxConsume < 0 returns
\* UnreachableAction, naming the parent's path and the child's trigger,
\* whatever child value it is given.
C15_UnreachableAlways ==
    (LastAdd /\ mem[last.v].MaxConsume < 0) =>
        last.err = UnreachableOf(mem[last.v], last.before)

\* C15 as the code has it: on a parent with MaxConsume < 0, AddSubAction
\* returns EmptyTrigger for a child without trigger, ActionAlreadyAssigned
\* for a child with a trigger that carries a parent, and UnreachableAction
\* for every other child; such a parent never has a child.
C15_UnreachableUnlessRejectedEarlier ==
    /\ (LastAdd /\ mem[last.v].MaxConsume < 0) =>
          last.err =
            IF last.before.Trigger = ""
            THEN MkErr("EmptyTrigger", << >>, << >>, << >>, "", "")
            ELSE IF last.before.parent # 0
            THEN MkErr("ActionAlreadyAssigned", << >>, << >>,
                       Path(last.before), "", "")
            ELSE UnreachableOf(mem[last.v], last.before)
    /\ \A i \in 1..Len(mem) :
          mem[i].MaxConsume < 0 => Registry(mem[i]) = << >>

\* a child with children of its own is refused below a parent that
\* consumes every token
C15_Witness ==
    /\ LastAdd
    /\ mem[last.v].MaxConsume < 0
    /\ last.err.kind = "UnreachableAction"
    /\ Len(last.err.path) = 2
    /\ Registry(last.before) # << >>

----------------------------------------------------------------------------
(* Properties of Finalize.  last.v is the variable it was called on,       *)
(* last.before its value before the call.                                  *)

LastFinalize == last.op = "Finalize"

\* the last call was Finalize on a variable Finalize was called on before
FinalizedAgain == LastFinalize /\ calls.finalizeCalls[last.v] = 2

\* C16 as stated: the second Finalize on a node returns DoubleFinalize
\* carrying the node.
C16_SecondFinalizeRejected ==
    FinalizedAgain =>
        last.err = MkErr("DoubleFinalize", <<last.before>>, << >>, << >>,
                         "", "")

\* C16 as the code has it: the second Finalize on a node with a trigger
\* returns DoubleFinalize carrying the node, whether the first call
\* succeeded or failed below the node; on a node without trigger the first
\* call stops at EmptyTrigger before the node is marked, and so does every
\* later one.
C16_SecondFinalizeRejectedIfTriggered ==
    FinalizedAgain =>
        IF last.before.Trigger = ""
        THEN /\ last.err = MkErr("EmptyTrigger", << >>, << >>,
                                 Path(last.before), "", "")
             /\ ~mem[last.v].finalized
        ELSE /\ last.err = MkErr("DoubleFinalize", <<last.before>>, << >>,
                                 << >>, "", "")
             /\ last.before.finalized
             /\ mem[last.v] = last.before

\* Finalize is refused the second time on a node with two children
C16_Witness ==
    /\ FinalizedAgain
    /\ last.err.kind = "DoubleFinalize"
    /\ last.err.victim = <<mem[last.v]>>
    /\ Cardinality(Children(mem[last.v])) = 2

----------------------------------------------------------------------------
(* Properties of Parse on the memory it shares with other Parse calls *)

\* a step that is a call of Parse
ParseStepTaken == last'.op = "Parse" /\ nParses' = nParses + 1

\* C17: a Parse call writes no field of any node of the tree, so that
\* Parse calls running at the same time on one finalized tree, each with
\* its own State, never touch the same node data with a write.
C17_ParseReadOnly ==
    [][ParseStepTaken => mem' = mem]_vars

----------------------------------------------------------------------------
(* Properties of the injected help child *)

FinalizeSucceeded == LastFinalize /\ last.err = NoErr

\* the finalized Action act has a child made by the finalizer: its trigger
\* is the help trigger of act, it consumes at most one token, has help
\* disabled on itself and the help handler
HasSyntheticHelp(act) ==
    /\ act.HelpTrigger \in Children(act)
    /\ LET h == ChildOf(act, act.HelpTrigger)
       IN  /\ h.Do.kind = "help"
           /\ h.Trigger = act.HelpTrigger
           /\ h.MaxConsume = 1
           /\ h.DisableHelp

\* the caller attached a child to act whose trigger is the help trigger of
\* act
HasUserHelpChild(act) ==
    /\ act.HelpTrigger \in DOMAIN Registry(act)
    /\ Registry(act)[act.HelpTrigger].Do.kind # "help"

\* the last call parsed the trigger of a finalized Action followed by its
\* help trigger
ParsedForHelp ==
    /\ LastParse
    /\ ParsedAct.finalized
    /\ last.args = <<ParsedAct.Trigger, ParsedAct.HelpTrigger>>

UserHelpChild(act) == ChildOf(act, act.HelpTrigger)

\* C19: when the caller attached a child with the help trigger of a node,
\* Finalize does not fail on it: it never returns DuplicatedSubAction, the
\* caller's child stays in the tree with its handler, and parsing the
\* node's trigger followed by the help trigger runs the handler of that
\* child and not the help handler of the node.
C19_UserHelpChildWins ==
    /\ LastFinalize =>
          last.err.kind \in {"nil", "DoubleFinalize", "EmptyTrigger"}
    /\ FinalizeSucceeded =>
          \A n \in NodesUnder(last.v) :
              HasUserHelpChild(mem[n]) =>
                  /\ mem[n].HelpTrigger \in Children(mem[n])
                  /\ UserHelpChild(mem[n]).Do
                        = Registry(mem[n])[mem[n].HelpTrigger].Do
                  /\ UserHelpChild(mem[n]).ShortDescr
                        = Registry(mem[n])[mem[n].HelpTrigger].ShortDescr
                  /\ UserHelpChild(mem[n]).finalized
    /\ (Matches /\ InjectsHelp(ParsedAct) /\ HasUserHelpChild(ParsedAct)
         /\ Len(last.args) >= 2
         /\ last.args[2] = ParsedAct.HelpTrigger
         /\ UserHelpChild(ParsedAct).finalized) =>
          /\ last.err = NoErr
          /\ \E i \in 1..Len(last.log) :
                /\ last.log[i].do = UserHelpChild(ParsedAct).Do
                /\ last.log[i].do.kind = "user"
                /\ last.log[i].node = Path(UserHelpChild(ParsedAct))
                /\ last.log[i].args = << >>
          /\ \A i \in 1..Len(last.log) :
                ~(last.log[i].do.kind = "help"
                  /\ last.log[i].do.act = last.v)

\* the caller's child named like the help trigger ran, after tokens with
\* one more token behind the help trigger
C19_Witness ==
    /\ Matches
    /\ InjectsHelp(ParsedAct)
    /\ HasUserHelpChild(ParsedAct)
    /\ Len(last.args) = 3
    /\ last.args[2] = ParsedAct.HelpTrigger
    /\ \E i \in 1..Len(last.log) :
          last.log[i].do = UserHelpChild(ParsedAct).Do

\* every node below the Action at address root is finalized, and every
\* child points to its parent and has the parent's path followed by its
\* own trigger as path
WellFinalized(root) ==
    \A n \in NodesUnder(root) :
        /\ mem[n].finalized
        /\ \A t \in Children(mem[n]) :
              /\ ChildOf(mem[n], t).parent = n
              /\ ChildOf(mem[n], t).pathCached = Path(mem[n]) \o <<t>>

\* the last call parsed the path of the node at address n followed by its
\* help trigger, and ended in a help handler called without a token
ParsedHelpOf(n) ==
    /\ LastParse
    /\ WellFinalized(last.v)
    /\ n \in NodesUnder(last.v)
    /\ InjectsHelp(mem[n])
    /\ HasSyntheticHelp(mem[n])
    /\ last.args = Path(mem[n]) \o <<mem[n].HelpTrigger>>
    /\ last.err = NoErr
    /\ last.log # << >>
    /\ last.log[Len(last.log)].do.kind = "help"
    /\ last.log[Len(last.log)].args = << >>

\* Help(N) of the node at address n: its generator applied to it
HelpTextOf(n) ==
    CallHelpGen(Store(mem, tmaps), mem[n].HelpGen, mem[n])

\* C20: for every node N of a finalized tree with help enabled and
\* normalized MaxConsume 0, parsing the path of N followed by the help
\* trigger of N writes the help text of N itself, made by the generator of
\* N from N and showing the path of N.
C20_HelpOfNodeItself ==
    \A n \in 1..Len(mem) :
        ParsedHelpOf(n) =>
            last.log[Len(last.log)].wrote = HelpTextOf(n)

\* the last call parsed the path of the node at address n, its help
\* trigger and the token x, in a tree finalized throughout
ParsedHelpArg(n, x) ==
    /\ LastParse
    /\ WellFinalized(last.v)
    /\ n \in NodesUnder(last.v)
    /\ InjectsHelp(mem[n])
    /\ HasSyntheticHelp(mem[n])
    /\ last.args = Path(mem[n]) \o <<mem[n].HelpTrigger, x>>

\* the last handler invocation of the last call
LastRun == last.log[Len(last.log)]

\* the text written when the help child of the node at address n finds no
\* sub-action x
NotFoundText(n, x) == <<Chunk("notfound", x, Path(mem[n]), << >>)>>

\* C21: when the help child of node N consumes one token naming a
\* sub-action, Parse succeeds; if N has a child with that trigger the help
\* handler writes the help text of that child, and if N has none it writes
\* the "not found" message for N and that token, and the output holds no
\* help text.
C21_HelpOfSubAction ==
    \A n \in 1..Len(mem) : \A x \in Tokens :
        ParsedHelpArg(n, x) =>
            /\ last.err = NoErr
            /\ last.log # << >>
            /\ LastRun.do.kind = "help"
            /\ LastRun.args = <<x>>
            /\ IF x \in Children(mem[n])
               THEN LastRun.wrote
                      = HelpTextOf(mem[n].subActionLookup.tbl[x])
               ELSE /\ LastRun.wrote = NotFoundText(n, x)
                    /\ \A i \in 1..Len(last.out.OutputStr) :
                          last.out.OutputStr[i].kind # "help"

----------------------------------------------------------------------------
(* Properties of the default help text *)

\* the sub-action listing in the text the default generator makes for the
\* node at address n: one pair of trigger and short description per line
HelpListing(n) ==
    defaultHelpGenerator(Store(mem, tmaps), mem[n])[1].body[1].subs

\* the lines of the listing of the node at address n that show trigger t
LinesOf(n, t) == {i \in 1..Len(HelpListing(n)) : HelpListing(n)[i][1] = t}

\* C22: the sub-action listing the default generator makes for a node of a
\* finalized tree has one line for every child with Hidden false and no
\* line for a child with Hidden true.
C22_ListingShowsVisibleOnly ==
    mem[1].finalized =>
        \A n \in NodesUnder(1) : \A t \in Children(mem[n]) :
            Cardinality(LinesOf(n, t))
                = (IF ChildOf(mem[n], t).Hidden THEN 0 ELSE 1)

----------------------------------------------------------------------------
(* Properties of the tree a successful Finalize leaves.  The Action a node *)
(* was made from is the value Finalize was called on, for the root, and    *)
(* the registry entry of its parent, for every other node.                 *)

RawOf(n) ==
    IF mem[n].parent = 0 THEN last.before
    ELSE RawChild(mem[n].parent, mem[n].Trigger)

\* the help trigger of the node at address n: its own if it set one, else
\* that of the nearest ancestor that set one, else "help"
RECURSIVE ResolvedHelpTrigger(_)
ResolvedHelpTrigger(n) ==
    IF RawOf(n).HelpTrigger # "" THEN RawOf(n).HelpTrigger
    ELSE IF mem[n].parent = 0 THEN "help"
    ELSE ResolvedHelpTrigger(mem[n].parent)

\* the help generator of the node at address n, resolved the same way
RECURSIVE ResolvedHelpGen(_)
ResolvedHelpGen(n) ==
    IF RawOf(n).HelpGen # "nil" THEN RawOf(n).HelpGen
    ELSE IF mem[n].parent = 0 THEN "default"
    ELSE ResolvedHelpGen(mem[n].parent)

\* C23: after a successful Finalize every node has the help trigger and the
\* help generator it set itself, else those of its nearest ancestor that
\* set one, else "help" and the default generator; and the help child
\* injected into a node has that node's resolved help trigger.
C23_HelpSettingsInherited ==
    (FinalizeSucceeded /\ WellFinalized(last.v)) =>
        \A n \in NodesUnder(last.v) :
            /\ mem[n].HelpTrigger = ResolvedHelpTrigger(n)
            /\ mem[n].HelpGen = ResolvedHelpGen(n)
            /\ (InjectsHelp(mem[n]) /\ ~HasUserHelpChild(mem[n])) =>
                  /\ HasSyntheticHelp(mem[n])
                  /\ ChildOf(mem[n], ResolvedHelpTrigger(n)).Do.kind = "help"

\* a node two levels below the root got the generator the root set, through
\* a parent that set none, and a help child
C23_Witness ==
    /\ FinalizeSucceeded
    /\ last.before.HelpGen = "gen2"
    /\ \E n \in NodesUnder(last.v) :
          /\ Len(Path(mem[n])) = 3
          /\ RawOf(n).HelpGen = "nil"
          /\ RawOf(mem[n].parent).HelpGen = "nil"
          /\ mem[n].HelpGen = "gen2"
          /\ HasSyntheticHelp(mem[n])

\* the triggers from the root down to the node at address n
RECURSIVE TriggersDownTo(_)
TriggersDownTo(n) ==
    IF mem[n].parent = 0 THEN <<mem[n].Trigger>>
    ELSE TriggersDownTo(mem[n].parent) \o <<mem[n].Trigger>>

\* C24: after a successful Finalize of a root, the Path of every node of
\* the tree is the sequence of the triggers from the root down to the node,
\* the key a node is found under in its parent being its trigger; so it is
\* for the nodes of a subtree that was built detached, with a shorter cached
\* path, before it was attached.
C24_PathFromRoot ==
    FinalizeSucceeded =>
        /\ mem[last.v].parent = 0
        /\ \A n \in NodesUnder(last.v) :
              /\ Path(mem[n]) = TriggersDownTo(n)
              /\ \A t \in Children(mem[n]) :
                    /\ ChildOf(mem[n], t).Trigger = t
                    /\ ChildOf(mem[n], t).parent = n

\* a node two levels below the root was attached to its parent while the
\* parent was detached: the path cached then had two triggers
C24_Witness ==
    /\ FinalizeSucceeded
    /\ \E n \in NodesUnder(last.v) :
          /\ Len(RawOf(n).pathCached) = 2
          /\ Len(Path(mem[n])) = 3
          /\ Path(mem[n])[1] = mem[last.v].Trigger
          /\ mem[n].Do.kind # "help"

----------------------------------------------------------------------------
(* A caller that builds and finalizes its trees, calling Help now and      *)
(* then, and after that only parses and calls Help; it keeps the record of *)
(* its first Parse call.                                                   *)

\* the Action literals variable v is initialised from
RepeatChoices(v) ==
    IF v = 1
    THEN LET base == [ZeroAction EXCEPT !.Trigger = TriggerOf(1)]
         IN  {[base EXCEPT !.Do = UserDo(HandlerOf(1), FALSE)],
              [base EXCEPT !.HelpGen = "gen1"],
              [base EXCEPT !.MinConsume = 1]}
    ELSE {[ZeroAction EXCEPT !.Trigger = TriggerOf(2),
                             !.Do = UserDo(HandlerOf(2), FALSE)]}

\* the caller's record: its first Parse call and the number of its Help
\* calls
RepeatNoCalls == [first |-> NoCall, helps |-> 0]

RepeatInit ==
    /\ mem \in {m \in [Vars -> UNION {RepeatChoices(v) : v \in Vars}] :
                  \A v \in Vars : m[v] \in RepeatChoices(v)}
    /\ tmaps = << >>
    /\ last = NoCall
    /\ nParses = 0
    /\ calls = RepeatNoCalls

RepeatAddSubActionCall ==
    \E p \in Vars, c \in Vars :
        /\ nParses = 0
        /\ Cardinality(Attached) < MaxAdds
        /\ AddSubActionStep(p, c)
        /\ UNCHANGED calls

RepeatFinalizeCall ==
    \E v \in Vars :
        /\ nParses = 0
        /\ FinalizeStep(v)
        /\ UNCHANGED calls

\* v.Help() on the caller's variable v, between two Parse calls
RepeatHelpCall ==
    \E v \in Vars :
        LET text == Help(Store(mem, tmaps), mem[v])
        IN  /\ nParses >= 1
            /\ calls.helps < MaxHelps
            /\ mem' = [mem EXCEPT ![v].helpTextCached = text]
            /\ last' = Call("Help", v, mem[v], NilState, << >>, << >>,
                            NoErr, [NilState EXCEPT !.OutputStr = text],
                            << >>)
            /\ calls' = [calls EXCEPT !.helps = @ + 1]
            /\ UNCHANGED <<tmaps, nParses>>

\* root.Parse(&State{}, args, vargs...) on the caller's first variable, once
\* it is finalized, with tokens that begin with its trigger; the last of
\* the caller's Parse calls repeats the first
RepeatParseCall ==
    \E args \in ArgsChoices, vargs \in VargsChoices :
        /\ nParses < MaxRepeatParses
        /\ mem[1].finalized
        /\ args # << >>
        /\ args[1] = mem[1].Trigger
        /\ nParses = MaxRepeatParses - 1 =>
              args = calls.first.args /\ vargs = calls.first.vargs
        /\ ParseStep(1, FreshState, args, vargs)
        /\ calls' = IF nParses = 0 THEN [calls EXCEPT !.first = last']
                    ELSE calls

RepeatNext ==
    \/ RepeatAddSubActionCall
    \/ RepeatFinalizeCall
    \/ RepeatHelpCall
    \/ RepeatParseCall

RepeatSpec == RepeatInit /\ [][RepeatNext]_vars

\* an error value without the help text cached in the Action it carries
ErrSeen(err) ==
    [err EXCEPT !.victim = [i \in 1..Len(@) |->
                               [@[i] EXCEPT !.helpTextCached = << >>]]]

\* the last call repeats the caller's first Parse call
RepeatsFirst ==
    /\ LastParse
    /\ nParses >= 2
    /\ last.v = calls.first.v
    /\ last.args = calls.first.args
    /\ last.vargs = calls.first.vargs
    /\ last.state = calls.first.state

\* C25: two Parse calls on the same finalized tree with the same tokens,
\* the same extra values and a fresh State each run the same handlers,
\* return the same error and leave the same output and the same consumed
\* tokens in their states, whatever Parse and Help calls were made between
\* them.  An Action carried by the error is the same up to the help text
\* cached in it, and Help on it gives the same text.
C25_ParseRepeatable ==
    RepeatsFirst =>
        /\ ErrSeen(last.err) = ErrSeen(calls.first.err)
        /\ \A i \in 1..Len(last.err.victim) :
              Help(Store(mem, tmaps), last.err.victim[i])
                = Help(Store(mem, tmaps), calls.first.err.victim[i])
        /\ last.out = calls.first.out
        /\ last.log = calls.first.log

\* a call that wrote a help text is repeated after another Parse call and
\* a Help call
C25_Witness ==
    /\ RepeatsFirst
    /\ nParses = 3
    /\ calls.helps >= 1
    /\ last.log # << >>
    /\ LastRun.do.kind = "help"
    /\ last.out.OutputStr # << >>

----------------------------------------------------------------------------
(* Properties of the recursion of Parse *)

\* the token sequences the calls of Parse nested in the call
\* v.Parse(state, args, vargs...) are entered with, outermost first, the
\* call itself included
LevelsOf(v, state, args, vargs) ==
    <<args>> \o Parse(Store(mem, tmaps), mem[v], state, args, vargs).levels

\* each level is entered with at least one token and with fewer tokens than
\* its caller
Descending(levels) ==
    \A i \in 2..Len(levels) :
        /\ levels[i] # << >>
        /\ Len(levels[i]) < Len(levels[i - 1])

\* C26: every Parse call on a finalized tree returns, each nested call of
\* Parse is entered with fewer tokens than its caller, and so the number of
\* nested calls and the number of handler invocations are at most the
\* number of tokens the caller supplied (a call without tokens returns at
\* once).
C26_DepthBoundedByTokens ==
    [][(ParseStepTaken /\ mem[last'.v].finalized) =>
          LET levels == LevelsOf(last'.v, last'.state, last'.args,
                                 last'.vargs)
          IN  /\ Descending(levels)
              /\ Len(levels) <= (IF last'.args = << >> THEN 1
                                 ELSE Len(last'.args))
              /\ Len(last'.log) <= Len(last'.args)
              /\ Len(last'.log) <= Len(levels)]_vars

\* a call with three tokens went three levels deep and ran three handlers
C26_Witness ==
    /\ LastParse
    /\ ParsedAct.finalized
    /\ Len(last.args) = 3
    /\ Len(last.log) = 3
    /\ Len(last.log[3].node) = 3
    /\ last.err = NoErr

----------------------------------------------------------------------------
(* Properties of a Finalize that fails below the root *)

\* the last call was Finalize on an Action with a trigger that was not
\* finalized, and it returned an error: the error comes from a descendant
FinalizeFailedBelow ==
    /\ LastFinalize
    /\ last.err # NoErr
    /\ ~last.before.finalized
    /\ last.before.Trigger # ""

\* the nodes below the Action at address root, root left out
Descendants(root) == NodesUnder(root) \ {root}

\* C27 as stated: once Finalize of a root has marked it finalized, having
\* failed at a descendant or not, Parse of the root never returns
\* ActionNotFinalized.
C27_ParseNeverNotFinalized ==
    (LastParse /\ ParsedAct.finalized) =>
        last.err.kind # "ActionNotFinalized"

\* C27 as the code has it: a Finalize that fails at a descendant returns
\* that descendant's error and undoes nothing: the root stays finalized
\* with its lookup table, every node below is either finalized or still
\* the copy of its registry entry, a later Finalize of the root returns
\* DoubleFinalize and changes nothing, and a later Parse of the root never
\* returns ActionNotFinalized for the root; it does return it, carrying the
\* descendant, when the tokens lead to a descendant Finalize did not reach.
C27_NoRollback ==
    /\ FinalizeFailedBelow =>
          /\ last.err.kind = "DoubleFinalize"
          /\ \E n \in Descendants(last.v) : last.err.victim = <<mem[n]>>
          /\ mem[last.v].finalized
          /\ ~mem[last.v].subActionLookup.isNil
          /\ \A n \in NodesUnder(last.v) : \A t \in Children(mem[n]) :
                mem[n].finalized =>
                    \/ ChildOf(mem[n], t).finalized
                    \/ ChildOf(mem[n], t) = Registry(mem[n])[t]
    /\ (LastFinalize /\ last.before.finalized) =>
          /\ last.err = MkErr("DoubleFinalize", <<last.before>>, << >>,
                              << >>, "", "")
          /\ mem[last.v] = last.before
    /\ (LastParse /\ ParsedAct.finalized
        /\ last.err.kind = "ActionNotFinalized") =>
          /\ last.err.victim # <<ParsedAct>>
          /\ \E n \in Descendants(last.v) :
                /\ last.err.victim = <<mem[n]>>
                /\ ~mem[n].finalized

\* Finalize of a root failed at a child that was finalized before it was
\* attached; the root is finalized, and parsing the root's trigger and the
\* trigger of a child Finalize did not reach returns ActionNotFinalized
C27_Witness ==
    /\ LastParse
    /\ ParsedAct.finalized
    /\ Len(last.args) = 2
    /\ last.err.kind = "ActionNotFinalized"
    /\ last.err.victim[1].Trigger = last.args[2]
    /\ \E t \in Children(ParsedAct) :
          /\ ChildOf(ParsedAct, t).finalized
          /\ ChildOf(ParsedAct, t) = Registry(ParsedAct)[t]

----------------------------------------------------------------------------
(* Properties of a Finalize that succeeds *)

\* every node Parse can reach from the caller's variable v is finalized
AllFinalized(v) == \A n \in NodesUnder(v) : mem[n].finalized

\* a step leaves every finalized node finalized, with the lookup table it
\* has
FinalizedNodesKept ==
    \A i \in 1..Len(mem) :
        mem[i].finalized =>
            /\ i <= Len(mem')
            /\ mem'[i].finalized
            /\ mem'[i].subActionLookup = mem[i].subActionLookup

\* C28: a successful Finalize of a root leaves every node that Parse can
\* dispatch to from the root finalized, the injected help children
\* included; no later call changes the mark or the lookup table of a
\* finalized node; and a Parse on a root with every such node finalized
\* never returns ActionNotFinalized, whatever the tokens are.
C28_FinalizeTransitive ==
    /\ [](FinalizeSucceeded => AllFinalized(last.v))
    /\ [][FinalizedNodesKept]_vars
    /\ []((LastParse /\ AllFinalized(last.v)) =>
             last.err.kind # "ActionNotFinalized")

\* a Parse of three tokens on a finalized tree ran the help handler of a
\* node below the root
C28_Witness ==
    /\ LastParse
    /\ AllFinalized(last.v)
    /\ Len(last.args) = 3
    /\ last.err = NoErr
    /\ last.log # << >>
    /\ LastRun.do.kind = "help"
    /\ Len(LastRun.node) = 3

----------------------------------------------------------------------------
(* Properties of what AddSubAction changes *)

\* the registry of the caller's variable p after the step
RegistryAfter(p) ==
    IF mem'[p].subActionLookupTemp = 0 THEN << >>
    ELSE tmaps'[mem'[p].subActionLookupTemp]

\* the errors AddSubAction returns
AddErrors ==
    {"EmptyTrigger", "ActionAlreadyAssigned", "UnreachableAction",
     "DuplicatedSubAction"}

\* C29: an AddSubAction call that returns an error changes nothing: the
\* parent's ordered child list and its registry are as before; a call that
\* succeeds appends the child's trigger at the end of the parent's ordered
\* list and adds one entry, under that trigger, to the parent's registry,
\* leaving the other entries, the child's variable and every other Action
\* as they were, so that SubActions() lists the children in attach order.
C29_AddFrame ==
    [][AddStep =>
          LET p == last'.v
              child == last'.before
              old == Registry(mem[p])
              new == RegistryAfter(p)
          IN  IF last'.err # NoErr
              THEN /\ last'.err.kind \in AddErrors
                   /\ mem' = mem
                   /\ tmaps' = tmaps
              ELSE /\ SubActions(mem'[p])
                        = Append(SubActions(mem[p]), child.Trigger)
                   /\ child.Trigger \notin DOMAIN old
                   /\ DOMAIN new = DOMAIN old \cup {child.Trigger}
                   /\ \A t \in DOMAIN old : new[t] = old[t]
                   /\ new[child.Trigger]
                        = [child EXCEPT
                              !.parent = p,
                              !.pathCached = Path(mem[p])
                                               \o <<child.Trigger>>]
                   /\ mem' = [mem EXCEPT
                                ![p].subActionTrigger
                                    = Append(@, child.Trigger),
                                ![p].subActionLookupTemp
                                    = mem'[p].subActionLookupTemp]
                   /\ \A j \in 1..Len(tmaps) :
                         j # mem'[p].subActionLookupTemp =>
                             tmaps'[j] = tmaps[j]]_vars

\* the second child of a parent was attached: the parent lists it last
C29_Witness ==
    /\ LastAdd
    /\ last.err = NoErr
    /\ Len(SubActions(mem[last.v])) = 2
    /\ SubActions(mem[last.v])[2] = last.before.Trigger
    /\ SubActions(mem[last.v])[1] # last.before.Trigger
    /\ DOMAIN Registry(mem[last.v])
         = {SubActions(mem[last.v])[1], SubActions(mem[last.v])[2]}

----------------------------------------------------------------------------
(* Properties of the three views of a node's children *)

\* the triggers SubActions() returns for the Action value act
ListedTriggers(act) == {SubActions(act)[i] : i \in 1..Len(SubActions(act))}

\* the triggers GetSubAction resolves to an Action with a trigger
ResolvedTriggers(act) ==
    {t \in {AllTriggers[i] : i \in 1..Len(AllTriggers)} :
        GetSubAction(Store(mem, tmaps), act, t).Trigger # ""}

\* the tree below the caller's variable v was finalized from v by a
\* Finalize that succeeded
FinalizedFrom(v) ==
    /\ mem[v].finalized
    /\ mem[v].parent = 0
    /\ WellFinalized(v)

\* C30: in every state after a successful Finalize of a root, AddSubAction
\* calls made since included, every node of the tree has the same set of
\* triggers in SubActions(), among the triggers GetSubAction resolves and
\* in the table Parse dispatches through, and every key of that table is
\* the trigger of the node it leads to.
C30_ChildViewsAgree ==
    \A v \in Vars :
        FinalizedFrom(v) =>
            \A n \in NodesUnder(v) :
                /\ ListedTriggers(mem[n]) = ResolvedTriggers(mem[n])
                /\ ResolvedTriggers(mem[n]) = Children(mem[n])
                /\ \A t \in Children(mem[n]) : ChildOf(mem[n], t).Trigger = t

----------------------------------------------------------------------------
(* Properties of the nodes that consume every token *)

\* every Action value the program holds: the caller's variables, the nodes
\* of the trees and the registry entries
AllActions ==
    {mem[i] : i \in 1..Len(mem)}
      \cup UNION {{tmaps[j][k] : k \in DOMAIN tmaps[j]} : j \in 1..Len(tmaps)}

\* the Action value act has no child in any of its three child tables
Childless(act) ==
    /\ Registry(act) = << >>
    /\ Children(act) = {}
    /\ SubActions(act) = << >>

\* C31: in every state reached by AddSubAction, Finalize and Parse calls, no
\* Action with MaxConsume < 0 has a child, attached by the caller or
\* injected for help, in its registry, its lookup table or its ordered
\* list; so a Parse that matches such a node runs its handler at most and
\* dispatches to no child.
C31_ConsumeAllHasNoChild ==
    /\ \A act \in AllActions : act.MaxConsume < 0 => Childless(act)
    /\ (Matches /\ ParsedAct.MaxConsume < 0) =>
          /\ Len(last.log) <= 1
          /\ \A i \in 1..Len(last.log) : last.log[i].node = Path(ParsedAct)

\* a tree was finalized in which a node below the root consumes every
\* token: the root got a help child, that node got none
C31_Witness ==
    /\ FinalizeSucceeded
    /\ HasSyntheticHelp(mem[last.v])
    /\ \E n \in Descendants(last.v) :
          /\ mem[n].MaxConsume < 0
          /\ mem[n].Do.kind # "help"
          /\ mem[n].finalized
          /\ Childless(mem[n])

----------------------------------------------------------------------------
(* A caller with two Actions that consume tokens, the second attached      *)
(* under the first, which parses token sequences long enough for both      *)
(* handlers to be handed tokens.                                           *)

\* the Action literals variable v is initialised from
ConsumeChoices(v) ==
    {[ZeroAction EXCEPT !.Trigger = TriggerOf(v), !.MinConsume = mn,
                        !.MaxConsume = mx, !.Do = do]
       : mn \in {0, 1},
         mx \in IF v = 1 THEN {0, 1, 2} ELSE {-1, 0, 1},
         do \in IF v = 1 THEN {NilDo, UserDo(HandlerOf(v), FALSE)}
                ELSE {UserDo(HandlerOf(v), FALSE)}}

ConsumeInit ==
    /\ mem \in {m \in [Vars -> UNION {ConsumeChoices(v) : v \in Vars}] :
                  \A v \in Vars : m[v] \in ConsumeChoices(v)}
    /\ tmaps = << >>
    /\ last = NoCall
    /\ nParses = 0
    /\ calls = NoCalls(Vars)

ConsumeAddSubActionCall ==
    \E p \in Vars, c \in Vars :
        /\ Building
        /\ Cardinality(Attached) < MaxRunAdds
        /\ AddSubActionStep(p, c)
        /\ UNCHANGED calls

ConsumeFinalizeCall ==
    \E v \in Vars :
        /\ Building
        /\ FinalizeStep(v)
        /\ UNCHANGED calls

\* root.Parse(&State{}, args, vargs...) on the caller's first variable, once
\* it is finalized, with tokens that begin with its trigger
ConsumeParseCall ==
    \E args \in SeqsUpTo(MaxRunTokens), vargs \in VargsChoices :
        /\ nParses < MaxParses
        /\ mem[1].finalized
        /\ args # << >>
        /\ args[1] = mem[1].Trigger
        /\ ParseStep(1, FreshState, args, vargs)
        /\ UNCHANGED calls

ConsumeNext ==
    \/ ConsumeAddSubActionCall
    \/ ConsumeFinalizeCall
    \/ ConsumeParseCall

ConsumeSpec == ConsumeInit /\ [][ConsumeNext]_vars

\* the number of Actions with a handler among the first i of path
RunsUpTo(path, i) == Cardinality({j \in 1..i : HasDo(path[j])})

\* the place in tokens of the first token of level, a tail of tokens
TriggerAt(tokens, level) == Len(tokens) - Len(level) + 1

\* C32: whenever Parse on a finalized tree invokes a handler, the tokens
\* the handler reads with Args() are n tokens with MinConsume <= n and
\* (MaxConsume < 0 or n <= MaxConsume) of its node, and they are the n
\* tokens of the input that stand right after the token that matched the
\* node's trigger; the runs of tokens handed to two handlers of one Parse
\* never share a token of the input.
C32_ConsumedArgsFollowTrigger ==
    [][(ParseStepTaken /\ mem[last'.v].finalized /\ ~last'.state.isNil) =>
          LET tokens == last'.args
              log == last'.log
              levels == LevelsOf(last'.v, last'.state, tokens, last'.vargs)
              path == MatchedPath(mem[last'.v], tokens)
              ran == {i \in 1..Len(path) : HasDo(path[i])}
              at(i) == TriggerAt(tokens, levels[i])
              got(i) == log[RunsUpTo(path, i)].args
          IN  /\ Len(log) = Cardinality(ran)
              /\ Len(path) <= Len(levels)
              /\ \A i \in ran :
                    /\ log[RunsUpTo(path, i)].node = Path(path[i])
                    /\ path[i].MinConsume <= Len(got(i))
                    /\ \/ path[i].MaxConsume < 0
                       \/ Len(got(i)) <= path[i].MaxConsume
                    /\ levels[i] = SubSeq(tokens, at(i), Len(tokens))
                    /\ tokens[at(i)] = path[i].Trigger
                    /\ got(i) = SubSeq(tokens, at(i) + 1, at(i) + Len(got(i)))
              /\ \A i \in ran, j \in ran :
                    i < j => at(i) + Len(got(i)) < at(j)]_vars

\* a Parse of four tokens ran two handlers and handed one token to each:
\* the second token to the first, the fourth to the second
C32_Witness ==
    /\ LastParse
    /\ ParsedAct.finalized
    /\ Len(last.args) = 4
    /\ Len(last.log) = 2
    /\ last.log[1].args = <<last.args[2]>>
    /\ last.log[2].args = <<last.args[4]>>
    /\ last.args[3] = "b"
    /\ last.err = NoErr

====
